---- MODULE Spec2Model ----
(***************************************************************************)
(* The composition pipeline of app/music_composer.py:                      *)
(*   compose_music_from_lyrics -> generate_melody_from_lyrics              *)
(*                             -> create_midi_file (score backends)        *)
(*                             -> convert_midi_to_mp3 (audio backends)     *)
(*                             -> unlink of the transient score file.      *)
(* One call of compose_music_from_lyrics is followed statement by          *)
(* statement. The file system, the optional libraries, the installed       *)
(* external tools and the behaviour of each external process are the       *)
(* environment: they are chosen nondeterministically.                      *)
(***************************************************************************)
EXTENDS Integers, Sequences, FiniteSets, TLC

VARIABLES
    output_path,  \* the caller's destination path, <<stem, suffix>>
    bpm,          \* the caller's tempo
    libs,         \* optional Python libraries that can be imported
    sfExists,     \* which of the probed soundfont locations exist (indices)
    tools,        \* external binaries that are installed
    fs,           \* file system: path -> "absent" | "empty" | "data"
    pc,           \* position of the call
    outcome,      \* "running" | "returned" | "raised"
    error,        \* the exception that left compose_music_from_lyrics
    stages,       \* history: the stages invoked, in order
    failed,       \* history: the stages that ended with an exception
    ioFault,      \* history: a fault hit create_simple_midi while it ran mido
    scoreTried,   \* history: the score backends attempted, in order
    audioTried,   \* history: the audio backends invoked, in order
    report,       \* history: what each audio backend returned
    synth,        \* history: exit and output file of each backend's process
    enc,          \* history: exit of the encoder step run by backends 1 and 2
    destBefore,   \* state of the destination when convert_midi_to_mp3 began
    cmds          \* history: the commands given to subprocess.run, in order

(* Two calls of compose_music_from_lyrics running at the same time in      *)
(* separate execution contexts, sharing only the file system.              *)
VARIABLES
    dests,        \* run -> its destination path
    rpc,          \* run -> its position
    files,        \* the shared directory: path -> "absent" | "empty" | "data"
    owner,        \* path -> the run whose file is there, 0 when there is none
    clash         \* history: <<run, path>> where a run read, overwrote or
                  \* deleted a file it does not own

concVars == <<dests, rpc, files, owner, clash>>

(* A call of generate_melody_from_lyrics followed by create_midi_file, with *)
(* the strings and numbers it works on.  A string is a sequence of          *)
(* one-character strings; the tempo is the variable bpm.                    *)
VARIABLES
    key,          \* the key argument
    lyrics,       \* the lyrics argument
    mpc,          \* position: "idle", "start", "scaled", "melody", "score"
    mres,         \* "none" | "returned" | "raised": how the last call ended
    scale,        \* the list returned by get_scale_notes
    melody,       \* the list returned by generate_melody_from_lyrics
    score         \* what create_midi_file wrote: [backend, events]

melodyVars == <<key, lyrics, mpc, mres, scale, melody, score>>

(* A call of generate_song_lyrics (app/generator.py) with the outcome of   *)
(* the text model and the numbers drawn from the random module.            *)
VARIABLES
    theme,        \* the theme argument
    style,        \* the style argument
    use_ai,       \* the use_ai argument
    stream,       \* the numbers the random module yields, repeated in order
    gpc,          \* position: "idle", "start", "fallback", "done"
    gres,         \* "none" | "returned" | "raised"
    ai,           \* history: what generate_with_gguf did: [raised, text]
    calls,        \* history: the generators called, in order
    song          \* the Song returned

genVars == <<theme, style, use_ai, stream, gpc, gres, ai, calls, song>>

pipeVars == <<output_path, bpm, libs, sfExists, tools, fs, pc, outcome, error,
              stages, failed, ioFault, scoreTried, audioTried, report, synth,
              enc, destBefore, cmds>>

vars == <<pipeVars, concVars, melodyVars, genVars>>

-----------------------------------------------------------------------------
(* Paths.  A path is <<stem, suffix>>; Path.with_suffix replaces the suffix. *)

Stems == {"song"}
Suffixes == {"mp3", "mid", "wav"}
Paths == Stems \X Suffixes

\* Variant: the derived name does not depend on the given path.
with_suffix_FixedStem(p, s) == <<"song", s>>

with_suffix(p, s) == <<p[1], s>>

\* music_composer.py:60
midi_path == with_suffix(output_path, "mid")
\* music_composer.py:307 and :348
wav_path == with_suffix(output_path, "wav")
\* convert_midi_to_mp3 is called with mp3_path = output_path (line 64)
mp3_path == output_path

FileStates == {"absent", "empty", "data"}

exists(f) == f # "absent"
st_size_positive(f) == f = "data"

-----------------------------------------------------------------------------
(* Environment.                                                            *)

Libraries == {"music21", "midiutil", "mido"}
Tools == {"fluidsynth", "timidity", "ffmpeg"}

\* The four soundfont locations probed by convert_with_fluidsynth.
NumSoundfontPaths == 4
SoundfontIndices == 1..NumSoundfontPaths

\* Tempi given by the caller; 0 makes 60.0 / bpm raise ZeroDivisionError.
BpmValues == {0, 120}

\* How a subprocess.run call ends: exit code 0, exit code # 0,
\* subprocess.TimeoutExpired, FileNotFoundError (binary not installed).
Exits == {"ok", "nonzero", "timeout", "notfound"}
\* What the process did to its output file before it ended.
Writes == {"none", "empty", "data"}

Written(old, w) == IF w = "none" THEN old ELSE w

\* The exits an installed / missing binary can produce.
ExitsOf(tool) == IF tool \in tools THEN {"ok", "nonzero", "timeout"} ELSE {"notfound"}
WritesOf(rc) == IF rc = "notfound" THEN {"none"} ELSE Writes

ScoreBackends == {"music21", "midiutil", "simple"}
AudioBackends == {"fluidsynth", "timidity", "ffmpeg_direct"}

NoProc == [rc |-> "none", out |-> "none"]

-----------------------------------------------------------------------------
(* Decisions of the code, as operators.                                    *)

\* create_midi_file: which backend the if / elif / else selects.
SelectScoreBackend(available) ==
    IF "music21" \in available THEN "music21"
    ELSE IF "midiutil" \in available THEN "midiutil"
    ELSE "simple"

\* The except branch of create_midi_with_music21 and create_midi_with_midiutil:
\* the backend that is called when the library backend raised.
ScoreFallback(backend) == "simple"

\* create_simple_midi: "import mido" raises ImportError when mido is absent,
\* and any exception becomes RuntimeError.
SimpleMidiRaises(available, fault) == "mido" \notin available \/ fault

\* Variant: the probe loop does not stop at the first existing path.
FirstSoundfont_LastFound(found) ==
    IF found = {} THEN 0
    ELSE CHOOSE i \in found : \A j \in found : i >= j

\* The first existing soundfont in probe order, 0 when there is none
\* (soundfont = None).
FirstSoundfont(found) ==
    IF found = {} THEN 0
    ELSE CHOOSE i \in found : \A j \in found : i <= j

\* convert_with_fluidsynth after subprocess.run: "encode" when the test of
\* line 332 passes, "false" when the function returns False, "raise" when an
\* exception leaves the function.
FluidsynthAfterRun(rc, wav) ==
    IF rc \in {"timeout", "notfound"} THEN "false"        \* except, line 339
    ELSE IF rc = "ok" /\ exists(wav) /\ st_size_positive(wav) THEN "encode"
    ELSE "false"                                          \* else branch, line 338

\* Variant: the except clause does not catch subprocess.TimeoutExpired.
TimidityAfterRun_TimeoutEscapes(rc, wav) ==
    IF rc = "timeout" THEN "raise"
    ELSE IF rc = "notfound" THEN "false"
    ELSE IF rc = "ok" /\ exists(wav) THEN "encode"
    ELSE "false"

\* convert_with_timidity after subprocess.run (line 355).
TimidityAfterRun(rc, wav) ==
    IF rc \in {"timeout", "notfound"} THEN "false"        \* except, line 359
    ELSE IF rc = "ok" /\ exists(wav) THEN "encode"
    ELSE "false"                                          \* line 362

\* convert_with_ffmpeg_direct after subprocess.run (line 376).
FfmpegDirectAfterRun(rc, mp3) ==
    IF rc \in {"timeout", "notfound"} THEN "false"        \* except, line 378
    ELSE IF rc = "ok" /\ exists(mp3) THEN "true"
    ELSE "false"                                          \* line 381

\* convert_wav_to_mp3: returns normally on exit code 0, raises otherwise
\* (RuntimeError for a non-zero exit, the re-raised exception for the rest).
WavToMp3Raises(rc) == rc # "ok"

\* Variant: the exception of the encoder step is not caught by the backend.
EncodeResult_Escapes(rc) == IF WavToMp3Raises(rc) THEN "raise" ELSE "true"

\* What the caller, convert_with_fluidsynth / convert_with_timidity, makes of
\* the encoder step: "true" when convert_wav_to_mp3 returned and the unlink
\* of the waveform is next, "false" when its exception is caught by the
\* except clause.
EncodeResult(rc) == IF WavToMp3Raises(rc) THEN "false" ELSE "true"

\* wav_path.unlink() (lines 335 and 357) followed by return True; on a
\* missing file it raises FileNotFoundError, which the except clause of the
\* backend catches: the backend returns False.
UnlinkResult(wav) == IF exists(wav) THEN "true" ELSE "false"

\* Variant: the final raise is missing, the function falls off its end.
AfterBackend_NoRaise(backend, success) ==
    IF success THEN "return"
    ELSE CASE backend = "fluidsynth" -> "timidity"
           [] backend = "timidity" -> "ffmpeg_direct"
           [] backend = "ffmpeg_direct" -> "return"

\* Variant: the second backend is left out of the chain.
AfterBackend_SkipTimidity(backend, success) ==
    IF success THEN "return"
    ELSE CASE backend = "fluidsynth" -> "ffmpeg_direct"
           [] backend = "timidity" -> "ffmpeg_direct"
           [] backend = "ffmpeg_direct" -> "raise"

\* convert_midi_to_mp3: what follows a backend that returned: "return" (lines
\* 286, 290, 294), the next backend, or the raise of line 297.
AfterBackend(backend, success) ==
    IF success THEN "return"
    ELSE CASE backend = "fluidsynth" -> "timidity"
           [] backend = "timidity" -> "ffmpeg_direct"
           [] backend = "ffmpeg_direct" -> "raise"

\* Variant: a failure of the rendering stage is swallowed and the next stage
\* runs.
AfterStage_Swallows(stage, ok) ==
    IF ~ok /\ stage # "render" THEN "raise"
    ELSE CASE stage = "melody" -> "render"
           [] stage = "render" -> "transcode"
           [] stage = "transcode" -> "cleanup"

\* compose_music_from_lyrics: what follows a stage.  The three calls are in
\* sequence with no try statement around them, so an exception of a stage
\* leaves the function at once.
AfterStage(stage, ok) ==
    IF ~ok THEN "raise"
    ELSE CASE stage = "melody" -> "render"
           [] stage = "render" -> "transcode"
           [] stage = "transcode" -> "cleanup"

-----------------------------------------------------------------------------
(* Strings (sequences of one-character strings) and the str methods used.  *)

\* str.endswith
endswith(str, suffix) ==
    /\ Len(suffix) <= Len(str)
    /\ SubSeq(str, Len(str) - Len(suffix) + 1, Len(str)) = suffix

\* str.rstrip(chars): removes every trailing character that is in chars.
RECURSIVE rstrip(_, _)
rstrip(str, chars) ==
    IF str # <<>> /\ str[Len(str)] \in chars
    THEN rstrip(SubSeq(str, 1, Len(str) - 1), chars)
    ELSE str

RECURSIVE lstrip(_, _)
lstrip(str, chars) ==
    IF str # <<>> /\ str[1] \in chars
    THEN lstrip(Tail(str), chars)
    ELSE str

\* The whitespace characters of the modelled alphabet.
Whitespace == {" ", "\n"}

\* str.strip()
strip(str) == lstrip(rstrip(str, Whitespace), Whitespace)

\* str.split(sep) for a one-character separator: the pieces between the
\* separators, empty pieces included.
RECURSIVE split_on(_, _, _, _)
split_on(str, sep, piece, pieces) ==
    IF str = <<>> THEN Append(pieces, piece)
    ELSE IF str[1] = sep
         THEN split_on(Tail(str), sep, <<>>, Append(pieces, piece))
         ELSE split_on(Tail(str), sep, Append(piece, str[1]), pieces)

\* str.split(): the maximal runs of non-whitespace characters.
RECURSIVE split_words(_, _, _)
split_words(str, word, words) ==
    IF str = <<>> THEN (IF word = <<>> THEN words ELSE Append(words, word))
    ELSE IF str[1] \in Whitespace
         THEN split_words(Tail(str), <<>>,
                          IF word = <<>> THEN words ELSE Append(words, word))
         ELSE split_words(Tail(str), Append(word, str[1]), words)

RECURSIVE SelectNonBlank(_)
SelectNonBlank(ls) ==
    IF ls = <<>> THEN <<>>
    ELSE IF strip(ls[1]) # <<>>
         THEN <<strip(ls[1])>> \o SelectNonBlank(Tail(ls))
         ELSE SelectNonBlank(Tail(ls))

\* Line 85: [line.strip() for line in lyrics.split('\n') if line.strip()]
NonBlankLines(text) == SelectNonBlank(split_on(text, "\n", <<>>, <<>>))

-----------------------------------------------------------------------------
(* Rational numbers <<n, d>> with d > 0 in lowest terms, for the seconds    *)
(* the code computes in floating point.                                    *)

RECURSIVE Gcd(_, _)
Gcd(a, b) == IF b = 0 THEN a ELSE Gcd(b, a % b)

Rat(n, d) ==
    LET Abs(x) == IF x < 0 THEN -x ELSE x
        g == Gcd(Abs(n), Abs(d))
        sgn == IF d < 0 THEN -1 ELSE 1
    IN <<(sgn * n) \div g, (sgn * d) \div g>>

RAdd(x, y) == Rat(x[1] * y[2] + y[1] * x[2], x[2] * y[2])
RMul(x, y) == Rat(x[1] * y[1], x[2] * y[2])
RInt(n) == <<n, 1>>
RLess(x, y) == x[1] * y[2] < y[1] * x[2]
RLeq(x, y) == x[1] * y[2] <= y[1] * x[2]

-----------------------------------------------------------------------------
(* get_scale_notes.                                                        *)

major_pattern == <<0, 2, 4, 5, 7, 9, 11>>
minor_pattern == <<0, 2, 3, 5, 7, 8, 10>>

\* key_map, as the set of its <<name, note>> items.
key_map ==
    { <<<<"C">>, 60>>, <<<<"C", "#">>, 61>>, <<<<"D", "b">>, 61>>,
      <<<<"D">>, 62>>, <<<<"D", "#">>, 63>>, <<<<"E", "b">>, 63>>,
      <<<<"E">>, 64>>, <<<<"F">>, 65>>, <<<<"F", "#">>, 66>>,
      <<<<"G", "b">>, 66>>, <<<<"G">>, 67>>, <<<<"G", "#">>, 68>>,
      <<<<"A", "b">>, 68>>, <<<<"A">>, 69>>, <<<<"A", "#">>, 70>>,
      <<<<"B", "b">>, 70>>, <<<<"B">>, 71>> }

KeyNames == {item[1] : item \in key_map}

\* Variant: a name that is not in the table gets the note 0.
key_map_get_DefaultZero(name, default) ==
    IF name \in KeyNames
    THEN (CHOOSE item \in key_map : item[1] = name)[2]
    ELSE 0

\* key_map.get(name, default)
key_map_get(name, default) ==
    IF name \in KeyNames
    THEN (CHOOSE item \in key_map : item[1] = name)[2]
    ELSE default

\* Line 140: key.endswith('m') or key.endswith('min')
is_minor(k) == endswith(k, <<"m">>) \/ endswith(k, <<"m", "i", "n">>)

\* Line 141: key.rstrip('m').rstrip('min')
base_key(k) == rstrip(rstrip(k, {"m"}), {"m", "i", "n"})

\* The default root, C.
DefaultRoot == 60

\* Variant: the minor pattern is never selected.
get_scale_notes_AlwaysMajor(k) ==
    LET base_note == key_map_get(base_key(k), DefaultRoot)
    IN [i \in 1..Len(major_pattern) |-> base_note + major_pattern[i]]

get_scale_notes(k) ==
    LET base_note == key_map_get(base_key(k), DefaultRoot)
        pattern == IF is_minor(k) THEN minor_pattern ELSE major_pattern
    IN [i \in 1..Len(pattern) |-> base_note + pattern[i]]

-----------------------------------------------------------------------------
(* generate_melody_from_lyrics.                                            *)

Max(a, b) == IF a >= b THEN a ELSE b

\* The least number of notes of a line (line 96).
MinNotesPerLine == 4

\* Variant: without the minimum.
notes_per_line_NoMinimum(line) == Len(split_words(line, <<>>, <<>>))

\* Line 96.
notes_per_line(line) == Max(MinNotesPerLine, Len(split_words(line, <<>>, <<>>)))

\* Variant: the odd notes of a line have no length.
duration_of_ZeroOdd(i, note_duration) ==
    IF i % 4 = 0 THEN RMul(note_duration, RInt(2))
    ELSE IF i % 2 = 0 THEN note_duration
    ELSE <<0, 1>>

\* Lines 104-109: the duration of note i of a line, note_duration being the
\* length of a quarter note.
duration_of(i, note_duration) ==
    IF i % 4 = 0 THEN RMul(note_duration, RInt(2))
    ELSE IF i % 2 = 0 THEN note_duration
    ELSE RMul(note_duration, <<1, 2>>)

\* The state of the loops: the melody so far and current_time.
\* Lines 98-117: notes i .. n-1 of one line.
RECURSIVE line_notes(_, _, _, _, _)
line_notes(acc, i, n, scale_notes, note_duration) ==
    IF i >= n THEN acc
    ELSE LET pitch == scale_notes[(i % Len(scale_notes)) + 1]
             duration == duration_of(i, note_duration)
             nt == [pitch |-> pitch, duration |-> duration,
                    start_time |-> acc.current_time]
         IN line_notes([melody |-> Append(acc.melody, nt),
                        current_time |-> RAdd(acc.current_time, duration)],
                       i + 1, n, scale_notes, note_duration)

\* Variant: no rest is added after a line.
RECURSIVE all_lines_NoRest(_, _, _, _)
all_lines_NoRest(acc, lines, scale_notes, note_duration) ==
    IF lines = <<>> THEN acc
    ELSE all_lines_NoRest(line_notes(acc, 0, notes_per_line(lines[1]),
                                     scale_notes, note_duration),
                          Tail(lines), scale_notes, note_duration)

\* Lines 94-120: the remaining lines.
RECURSIVE all_lines(_, _, _, _)
all_lines(acc, lines, scale_notes, note_duration) ==
    IF lines = <<>> THEN acc
    ELSE LET after == line_notes(acc, 0, notes_per_line(lines[1]),
                                 scale_notes, note_duration)
         IN all_lines([melody |-> after.melody,
                       current_time |-> RAdd(after.current_time,
                                             RMul(note_duration, <<1, 2>>))],
                      Tail(lines), scale_notes, note_duration)

\* Variant: the quarter note lasts bpm / 60 seconds.
generate_melody_from_lyrics_BeatsPerSecond(text, tempo, k) ==
    LET lines == NonBlankLines(text)
        scale_notes == get_scale_notes(k)
        note_duration == Rat(tempo, 60)
    IN all_lines([melody |-> <<>>, current_time |-> <<0, 1>>],
                 lines, scale_notes, note_duration).melody

\* The returned list, for bpm # 0 (for bpm = 0 line 92 raises).
generate_melody_from_lyrics(text, tempo, k) ==
    LET lines == NonBlankLines(text)
        scale_notes == get_scale_notes(k)
        note_duration == Rat(60, tempo)
    IN all_lines([melody |-> <<>>, current_time |-> <<0, 1>>],
                 lines, scale_notes, note_duration).melody

-----------------------------------------------------------------------------
(* Initial states: one call of compose_music_from_lyrics about to start,   *)
(* with none of its three files on disk.                                   *)

\* The state of the two concurrent runs while a single call is followed.
Runs == {1, 2}
ConcStems == {"song", "tune"}
ConcPaths == ConcStems \X Suffixes

ConcIdle ==
    /\ dests = [r \in Runs |-> <<"song", "mp3">>]
    /\ rpc = [r \in Runs |-> "idle"]
    /\ files = [p \in ConcPaths |-> "absent"]
    /\ owner = [p \in ConcPaths |-> 0]
    /\ clash = {}

\* "C": the default key of compose_music_from_lyrics (line 40).
DefaultKey == <<"C">>
NoScore == [backend |-> "none", events |-> <<>>]

\* The state of the melody call while another specification runs.
MelodyIdle ==
    /\ key = DefaultKey
    /\ lyrics = <<>>
    /\ mpc = "idle"
    /\ mres = "none"
    /\ scale = <<>>
    /\ melody = <<>>
    /\ score = NoScore

\* The outcome of the AI generation: it raised, or it returned a text.
NoAi == [raised |-> FALSE, text |-> <<>>]

NoSong == [title |-> <<>>, lyrics |-> <<>>, bpm |-> 0, key |-> <<>>]

\* No call of generate_song_lyrics in progress.
GenIdle ==
    /\ theme = <<>>
    /\ style = <<>>
    /\ use_ai = FALSE
    /\ stream = <<0>>
    /\ gpc = "idle"
    /\ gres = "none"
    /\ ai = NoAi
    /\ calls = <<>>
    /\ song = NoSong

InitWith(destinations) ==
    /\ output_path \in destinations
    /\ bpm \in BpmValues
    /\ libs \in SUBSET Libraries
    /\ sfExists \in SUBSET SoundfontIndices
    /\ tools \in SUBSET Tools
    /\ fs = [p \in Paths |-> "absent"]
    /\ pc = "melody"
    /\ outcome = "running"
    /\ error = "none"
    /\ stages = <<>>
    /\ failed = {}
    /\ ioFault = FALSE
    /\ scoreTried = <<>>
    /\ audioTried = <<>>
    /\ report = [b \in AudioBackends |-> "none"]
    /\ synth = [b \in AudioBackends |-> NoProc]
    /\ enc = [b \in AudioBackends |-> "none"]
    /\ destBefore = "unset"
    /\ cmds = <<>>
    /\ ConcIdle
    /\ MelodyIdle
    /\ GenIdle

\* The destination is the path of an MP3 file (docstring of
\* compose_music_from_lyrics; api.py appends ".mp3" to any other name).
Mp3Paths == {p \in Paths : p[2] = "mp3"}

Init == InitWith(Mp3Paths)

\* The same call with a destination of any suffix, among them the suffixes
\* of the score file and of the waveform file.
InitAnyDest == InitWith(Paths)

env == <<output_path, bpm, libs, sfExists, tools, concVars, melodyVars, genVars>>

\* An exception leaves compose_music_from_lyrics.
Raise(e) ==
    /\ pc' = "done"
    /\ outcome' = "raised"
    /\ error' = e

\* A stage of compose_music_from_lyrics ended, normally (ok) or with the
\* exception e.
StageEnds(stage, ok, e) ==
    /\ failed' = IF ok THEN failed ELSE failed \cup {stage}
    /\ LET nxt == AfterStage(stage, ok)
       IN IF nxt = "raise"
          THEN Raise(e)
          ELSE pc' = nxt /\ UNCHANGED <<outcome, error>>

-----------------------------------------------------------------------------
(* compose_music_from_lyrics, line 57: generate_melody_from_lyrics.        *)
(* note_duration = 60.0 / bpm raises ZeroDivisionError for bpm = 0.        *)
GenerateMelody ==
    /\ pc = "melody"
    /\ stages' = Append(stages, "melody")
    /\ StageEnds("melody", bpm # 0, "ZeroDivisionError")
    /\ UNCHANGED <<env, cmds, ioFault, fs, scoreTried, audioTried, report, synth, enc, destBefore>>

(* Line 61: create_midi_file selects a backend.                            *)
CreateMidiFile ==
    /\ pc = "render"
    /\ stages' = Append(stages, "render")
    /\ pc' = SelectScoreBackend({l \in libs : l \in {"music21", "midiutil"}})
    /\ UNCHANGED <<env, cmds, ioFault, fs, outcome, error, failed, scoreTried, audioTried,
                   report, synth, enc, destBefore>>

(* create_midi_with_music21.  The parameter "key" (a str) hides the module *)
(* music21.key, so key.Key(key) on line 182 raises AttributeError before   *)
(* anything is written; the except clause calls the fallback.              *)
CreateMidiWithMusic21 ==
    /\ pc = "music21"
    /\ scoreTried' = Append(scoreTried, "music21")
    /\ pc' = ScoreFallback("music21")
    /\ UNCHANGED <<env, cmds, ioFault, fs, outcome, error, stages, failed, audioTried, report,
                   synth, enc, destBefore>>

(* create_midi_with_midiutil: writes the file, or raises (an I/O fault,    *)
(* possibly after open() created the file) and calls the fallback.         *)
CreateMidiWithMidiutil ==
    /\ pc = "midiutil"
    /\ scoreTried' = Append(scoreTried, "midiutil")
    /\ \/ /\ fs' = [fs EXCEPT ![midi_path] = "data"]
          /\ StageEnds("render", TRUE, "none")
       \/ /\ \E w \in Writes :
                fs' = [fs EXCEPT ![midi_path] = Written(@, w)]
          /\ pc' = ScoreFallback("midiutil")
          /\ UNCHANGED <<outcome, error, failed>>
    /\ UNCHANGED <<env, cmds, ioFault, stages, audioTried, report, synth, enc, destBefore>>

(* create_simple_midi: needs mido; any failure is raised as RuntimeError.  *)
CreateSimpleMidi ==
    /\ pc = "simple"
    /\ scoreTried' = Append(scoreTried, "simple")
    /\ \E fault \in BOOLEAN, w \in Writes :
          /\ ioFault' = ("mido" \in libs /\ fault)
          /\ IF SimpleMidiRaises(libs, fault)
             THEN /\ fs' = [fs EXCEPT ![midi_path] =
                               IF "mido" \in libs THEN Written(@, w) ELSE @]
                  /\ StageEnds("render", FALSE, "RenderFailure")
             ELSE /\ fs' = [fs EXCEPT ![midi_path] = "data"]
                  /\ StageEnds("render", TRUE, "none")
    /\ UNCHANGED <<env, cmds, stages, audioTried, report, synth, enc, destBefore>>

(* Line 64: convert_midi_to_mp3 is entered.                                *)
ConvertMidiToMp3 ==
    /\ pc = "transcode"
    /\ stages' = Append(stages, "transcode")
    /\ destBefore' = fs[mp3_path]
    /\ pc' = "fluidsynth"
    /\ UNCHANGED <<env, cmds, ioFault, fs, outcome, error, failed, scoreTried, audioTried,
                   report, synth, enc>>

\* An audio backend returned res ("true" / "false"), or an exception left it
\* ("raise"): convert_midi_to_mp3 returns, goes on to the next backend or
\* raises, and with it ends the transcoding stage.
BackendReturns(backend, res) ==
    IF res = "raise"
    THEN /\ StageEnds("transcode", FALSE, "Escaped")
         /\ UNCHANGED report
    ELSE /\ report' = [report EXCEPT ![backend] = res]
         /\ LET nxt == AfterBackend(backend, res = "true")
            IN CASE nxt = "raise" -> StageEnds("transcode", FALSE, "TranscodeFailure")
                 [] nxt = "return" -> StageEnds("transcode", TRUE, "none")
                 [] OTHER -> pc' = nxt /\ UNCHANGED <<outcome, error, failed>>

\* A command given to subprocess.run: the program (cmd[0]), the backend
\* function that runs it, and the soundfont argument (its index in the
\* probe list, 0 when the command has none).
Command(program, backend, soundfont) ==
    [program |-> program, by |-> backend, soundfont |-> soundfont]

(* convert_with_fluidsynth up to the test of line 332.                     *)
ConvertWithFluidsynth ==
    /\ pc = "fluidsynth"
    /\ audioTried' = Append(audioTried, "fluidsynth")
    /\ IF FirstSoundfont(sfExists) = 0
       THEN /\ BackendReturns("fluidsynth", "false")
            /\ UNCHANGED <<fs, synth, cmds>>
       ELSE \E rc \in ExitsOf("fluidsynth") : \E w \in WritesOf(rc) :
              LET wav == Written(fs[wav_path], w)
                  res == FluidsynthAfterRun(rc, wav)
              IN /\ cmds' = Append(cmds, Command("fluidsynth", "fluidsynth",
                                                 FirstSoundfont(sfExists)))
                 /\ fs' = [fs EXCEPT ![wav_path] = wav]
                 /\ synth' = [synth EXCEPT !["fluidsynth"] = [rc |-> rc, out |-> wav]]
                 /\ IF res = "encode"
                    THEN pc' = "fluidsynth_encode" /\ UNCHANGED <<outcome, error, failed, report>>
                    ELSE BackendReturns("fluidsynth", res)
    /\ UNCHANGED <<env, ioFault, stages, scoreTried, enc, destBefore>>

(* convert_with_timidity up to the test of line 355.                       *)
ConvertWithTimidity ==
    /\ pc = "timidity"
    /\ audioTried' = Append(audioTried, "timidity")
    /\ \E rc \in ExitsOf("timidity") : \E w \in WritesOf(rc) :
          LET wav == Written(fs[wav_path], w)
              res == TimidityAfterRun(rc, wav)
          IN /\ cmds' = Append(cmds, Command("timidity", "timidity", 0))
             /\ fs' = [fs EXCEPT ![wav_path] = wav]
             /\ synth' = [synth EXCEPT !["timidity"] = [rc |-> rc, out |-> wav]]
             /\ IF res = "encode"
                THEN pc' = "timidity_encode" /\ UNCHANGED <<outcome, error, failed, report>>
                ELSE BackendReturns("timidity", res)
    /\ UNCHANGED <<env, ioFault, stages, scoreTried, enc, destBefore>>

\* The positions of a backend at its encoder step and at its unlink.
EncodePc(backend) == IF backend = "fluidsynth" THEN "fluidsynth_encode" ELSE "timidity_encode"
UnlinkPc(backend) == IF backend = "fluidsynth" THEN "fluidsynth_unlink" ELSE "timidity_unlink"

(* Lines 334 and 356: convert_wav_to_mp3(wav_path, mp3_path) runs the      *)
(* encoder process and waits for it; an exception of the encoder step is   *)
(* caught by the backend's except clause and the backend returns False.    *)
ConvertWavToMp3(backend) ==
    /\ pc = EncodePc(backend)
    /\ \E rc \in ExitsOf("ffmpeg") : \E w \in WritesOf(rc) :
          LET res == EncodeResult(rc)
          IN /\ cmds' = Append(cmds, Command("ffmpeg", backend, 0))
             /\ enc' = [enc EXCEPT ![backend] = rc]
             /\ fs' = [fs EXCEPT ![mp3_path] = Written(@, w)]
             /\ IF res = "true"
                THEN /\ pc' = UnlinkPc(backend)
                     /\ UNCHANGED <<outcome, error, failed, report>>
                ELSE BackendReturns(backend, res)
    /\ UNCHANGED <<env, ioFault, stages, scoreTried, audioTried, synth, destBefore>>

(* Lines 335-336 and 357-358: wav_path.unlink() and return True after the  *)
(* encoder process has ended.                                              *)
UnlinkWaveform(backend) ==
    /\ pc = UnlinkPc(backend)
    /\ LET res == UnlinkResult(fs[wav_path])
       IN /\ fs' = IF res = "true" THEN [fs EXCEPT ![wav_path] = "absent"] ELSE fs
          /\ BackendReturns(backend, res)
    /\ UNCHANGED <<env, cmds, ioFault, stages, scoreTried, audioTried, synth, enc,
                   destBefore>>

(* convert_with_ffmpeg_direct, and the raise of convert_midi_to_mp3 when   *)
(* it returns False.                                                       *)
ConvertWithFfmpegDirect ==
    /\ pc = "ffmpeg_direct"
    /\ audioTried' = Append(audioTried, "ffmpeg_direct")
    /\ \E rc \in ExitsOf("ffmpeg") : \E w \in WritesOf(rc) :
          LET mp3 == Written(fs[mp3_path], w)
          IN /\ cmds' = Append(cmds, Command("ffmpeg", "ffmpeg_direct", 0))
             /\ fs' = [fs EXCEPT ![mp3_path] = mp3]
             /\ synth' = [synth EXCEPT !["ffmpeg_direct"] = [rc |-> rc, out |-> mp3]]
             /\ BackendReturns("ffmpeg_direct", FfmpegDirectAfterRun(rc, mp3))
    /\ UNCHANGED <<env, ioFault, stages, scoreTried, enc, destBefore>>

(* Lines 67-71: the score file is unlinked and the path returned.          *)
Cleanup ==
    /\ pc = "cleanup"
    /\ fs' = [fs EXCEPT ![midi_path] = "absent"]
    /\ pc' = "done"
    /\ outcome' = "returned"
    /\ UNCHANGED <<env, cmds, ioFault, error, stages, failed, scoreTried, audioTried, report,
                   synth, enc, destBefore>>

Next ==
    \/ GenerateMelody
    \/ CreateMidiFile
    \/ CreateMidiWithMusic21
    \/ CreateMidiWithMidiutil
    \/ CreateSimpleMidi
    \/ ConvertMidiToMp3
    \/ ConvertWithFluidsynth
    \/ ConvertWithTimidity
    \/ ConvertWavToMp3("fluidsynth")
    \/ ConvertWavToMp3("timidity")
    \/ UnlinkWaveform("fluidsynth")
    \/ UnlinkWaveform("timidity")
    \/ ConvertWithFfmpegDirect
    \/ Cleanup

Spec == Init /\ [][Next]_vars

SpecAnyDest == InitAnyDest /\ [][Next]_vars

TypeOK ==
    /\ output_path \in Paths
    /\ fs \in [Paths -> FileStates]
    /\ outcome \in {"running", "returned", "raised"}
    /\ (pc = "done") = (outcome # "running")


-----------------------------------------------------------------------------
(* Two concurrent runs.  Each run performs the file operations of          *)
(* compose_music_from_lyrics on the paths derived from its own             *)
(* destination.  A step of a run is one library call that writes the       *)
(* score, one external process (subprocess.run waits for it), one test of  *)
(* a path, or one unlink; the steps of the two runs interleave freely.     *)
(* A run ends at "done" (line 71) or at "raised" (an exception left        *)
(* compose_music_from_lyrics, lines 67-68 not reached).                    *)

\* The paths a run touches: destination, score file, waveform file.
score_path(d) == with_suffix(d, "mid")
waveform_path(d) == with_suffix(d, "wav")
PathsOf(d) == {d, score_path(d), waveform_path(d)}

\* The state of the single call, not started.
CallParked ==
    /\ output_path = <<"song", "mp3">>
    /\ fs = [p \in Paths |-> "absent"]
    /\ pc = "idle"
    /\ outcome = "running"
    /\ error = "none"
    /\ stages = <<>>
    /\ failed = {}
    /\ ioFault = FALSE
    /\ scoreTried = <<>>
    /\ audioTried = <<>>
    /\ report = [b \in AudioBackends |-> "none"]
    /\ synth = [b \in AudioBackends |-> NoProc]
    /\ enc = [b \in AudioBackends |-> "none"]
    /\ destBefore = "unset"
    /\ cmds = <<>>

\* The single call of the pipeline specification, not started, in an
\* environment without tools.
PipelineParked == CallParked /\ sfExists = {} /\ tools = {}

PipelineIdle == PipelineParked /\ bpm = 120 /\ libs = {}

\* Two requests with distinct destination paths, both past line 57, in one
\* environment: which MIDI libraries can be imported, which tools are
\* installed, whether the first soundfont exists.  The two stems are
\* interchangeable, so the first run's stem is fixed.
ConcInit ==
    /\ CallParked
    /\ bpm = 120
    /\ libs \in {{}, {"mido"}, {"midiutil", "mido"}}
    /\ tools \in {{}, {"ffmpeg"}, {"timidity", "ffmpeg"}, Tools}
    /\ sfExists \in {{}, {1}}
    /\ MelodyIdle
    /\ GenIdle
    /\ dests \in {d \in [Runs -> ConcPaths] : d[1] # d[2] /\ d[1][1] = "song"}
    /\ rpc = [r \in Runs |-> "render"]
    /\ files = [p \in ConcPaths |-> "absent"]
    /\ owner = [p \in ConcPaths |-> 0]
    /\ clash = {}

\* Run r reads path p: a clash unless the file there is its own.
ReadClash(r, p, own) == IF own[p] = r THEN {} ELSE {<<r, p>>}
\* Run r creates, overwrites or unlinks p: a clash if another run's file is there.
WriteClash(r, p, own) == IF own[p] \in {0, r} THEN {} ELSE {<<r, p>>}

\* A process or library call of run r that read the paths in reads (when
\* it ran at all) and left w in path p.
CFileOp(r, ran, reads, p, w) ==
    /\ clash' = clash
                  \cup (IF ran THEN UNION {ReadClash(r, q, owner) : q \in reads} ELSE {})
                  \cup (IF w # "none" THEN WriteClash(r, p, owner) ELSE {})
    /\ files' = [files EXCEPT ![p] = Written(@, w)]
    /\ owner' = [owner EXCEPT ![p] = IF w # "none" THEN r ELSE @]

\* Path.unlink() by run r of a path that exists.
CUnlink(r, p) ==
    /\ clash' = clash \cup WriteClash(r, p, owner)
    /\ files' = [files EXCEPT ![p] = "absent"]
    /\ owner' = [owner EXCEPT ![p] = 0]

CGoto(r, where) == rpc' = [rpc EXCEPT ![r] = where]

\* Where run r is after its rendering stage (line 61) ended; the entry of
\* convert_midi_to_mp3 (line 64) touches no file.
CAfterRender(ok) ==
    IF AfterStage("render", ok) = "raise" THEN "raised" ELSE "fluidsynth"

\* Where run r is after an audio backend returned res.
CAfterBackend(backend, res) ==
    IF res = "raise" THEN "raised"
    ELSE LET nxt == AfterBackend(backend, res = "true")
         IN CASE nxt = "raise" -> "raised"
              [] nxt = "return" -> IF AfterStage("transcode", TRUE) = "raise"
                                   THEN "raised" ELSE "cleanup"
              [] OTHER -> nxt

\* create_simple_midi of run r: needs mido, writes the score file; a
\* failure (possibly after the file was created) is raised.
CSimpleMidi(r) ==
    \E fault \in BOOLEAN, w \in Writes :
       IF SimpleMidiRaises(libs, fault)
       THEN /\ CFileOp(r, FALSE, {}, score_path(dests[r]),
                       IF "mido" \in libs THEN w ELSE "none")
            /\ CGoto(r, CAfterRender(FALSE))
       ELSE /\ CFileOp(r, FALSE, {}, score_path(dests[r]), "data")
            /\ CGoto(r, CAfterRender(TRUE))

\* create_midi_file (line 61): the selected backend runs.  The music21
\* backend raises before it writes and calls the in-house writer; the
\* midiutil backend writes the file or fails, possibly after creating it.
CRender(r) ==
    /\ rpc[r] = "render"
    /\ LET backend == SelectScoreBackend({l \in libs : l \in {"music21", "midiutil"}})
       IN IF backend = "midiutil"
          THEN \/ /\ CFileOp(r, FALSE, {}, score_path(dests[r]), "data")
                  /\ CGoto(r, CAfterRender(TRUE))
               \/ /\ \E w \in Writes : CFileOp(r, FALSE, {}, score_path(dests[r]), w)
                  /\ CGoto(r, ScoreFallback("midiutil"))
          ELSE CSimpleMidi(r)
    /\ UNCHANGED <<pipeVars, genVars, melodyVars, dests>>

\* create_simple_midi called from the except clause of the midiutil backend.
CRenderFallback(r) ==
    /\ rpc[r] = "simple"
    /\ CSimpleMidi(r)
    /\ UNCHANGED <<pipeVars, genVars, melodyVars, dests>>

\* A synthesizer process (fluidsynth line 328, timidity line 351) reads the
\* score and writes the waveform.  After exit code 0 the test of the
\* waveform follows; after anything else the backend returns False.
CSynth(r, backend) ==
    /\ rpc[r] = backend
    /\ IF backend = "fluidsynth" /\ FirstSoundfont(sfExists) = 0
       THEN /\ CGoto(r, CAfterBackend(backend, "false"))
            /\ UNCHANGED <<files, owner, clash>>
       ELSE \E rc \in ExitsOf(backend) : \E w \in WritesOf(rc) :
              /\ CFileOp(r, rc # "notfound", {score_path(dests[r])},
                         waveform_path(dests[r]), w)
              /\ IF rc = "ok"
                 THEN CGoto(r, IF backend = "fluidsynth" THEN "fluidsynth_test"
                               ELSE "timidity_test")
                 ELSE CGoto(r, CAfterBackend(backend,
                                   IF backend = "fluidsynth"
                                   THEN FluidsynthAfterRun(rc, "absent")
                                   ELSE TimidityAfterRun(rc, "absent")))
    /\ UNCHANGED <<pipeVars, genVars, melodyVars, dests>>

\* The test of the waveform after exit code 0 (lines 332 and 355).
CSynthTest(r, backend) ==
    /\ rpc[r] = (IF backend = "fluidsynth" THEN "fluidsynth_test" ELSE "timidity_test")
    /\ LET wav == files[waveform_path(dests[r])]
           res == IF backend = "fluidsynth" THEN FluidsynthAfterRun("ok", wav)
                  ELSE TimidityAfterRun("ok", wav)
       IN CGoto(r, IF res = "encode" THEN EncodePc(backend)
                   ELSE CAfterBackend(backend, res))
    /\ UNCHANGED <<pipeVars, genVars, melodyVars, dests, files, owner, clash>>

\* The encoder process of convert_wav_to_mp3 (line 392, called from lines
\* 334 and 356) reads the waveform and writes the destination.
CEncode(r, backend) ==
    /\ rpc[r] = EncodePc(backend)
    /\ \E rc \in ExitsOf("ffmpeg") : \E w \in WritesOf(rc) :
          /\ CFileOp(r, rc # "notfound", {waveform_path(dests[r])}, dests[r], w)
          /\ LET res == EncodeResult(rc)
             IN CGoto(r, IF res = "true" THEN UnlinkPc(backend)
                         ELSE CAfterBackend(backend, res))
    /\ UNCHANGED <<pipeVars, genVars, melodyVars, dests>>

\* wav_path.unlink() after the encoder process ended (lines 335 and 357).
CUnlinkWaveform(r, backend) ==
    /\ rpc[r] = UnlinkPc(backend)
    /\ LET wav == waveform_path(dests[r])
           res == UnlinkResult(files[wav])
       IN /\ IF res = "true" THEN CUnlink(r, wav) ELSE UNCHANGED <<files, owner, clash>>
          /\ CGoto(r, CAfterBackend(backend, res))
    /\ UNCHANGED <<pipeVars, genVars, melodyVars, dests>>

\* The process of convert_with_ffmpeg_direct (line 372) reads the score and
\* writes the destination.
CDirect(r) ==
    /\ rpc[r] = "ffmpeg_direct"
    /\ \E rc \in ExitsOf("ffmpeg") : \E w \in WritesOf(rc) :
          /\ CFileOp(r, rc # "notfound", {score_path(dests[r])}, dests[r], w)
          /\ CGoto(r, IF rc = "ok" THEN "ffmpeg_direct_test"
                      ELSE CAfterBackend("ffmpeg_direct",
                                         FfmpegDirectAfterRun(rc, "absent")))
    /\ UNCHANGED <<pipeVars, genVars, melodyVars, dests>>

\* The test of the destination after exit code 0 (line 376).
CDirectTest(r) ==
    /\ rpc[r] = "ffmpeg_direct_test"
    /\ CGoto(r, CAfterBackend("ffmpeg_direct",
                              FfmpegDirectAfterRun("ok", files[dests[r]])))
    /\ UNCHANGED <<pipeVars, genVars, melodyVars, dests, files, owner, clash>>

\* midi_path.exists() (line 67).
CCleanup(r) ==
    /\ rpc[r] = "cleanup"
    /\ CGoto(r, IF exists(files[score_path(dests[r])]) THEN "cleanup_unlink" ELSE "done")
    /\ UNCHANGED <<pipeVars, genVars, melodyVars, dests, files, owner, clash>>

\* midi_path.unlink() (line 68); FileNotFoundError leaves the call when the
\* file has gone since the test.
CCleanupUnlink(r) ==
    /\ rpc[r] = "cleanup_unlink"
    /\ LET mid == score_path(dests[r])
       IN IF exists(files[mid])
          THEN CUnlink(r, mid) /\ CGoto(r, "done")
          ELSE CGoto(r, "raised") /\ UNCHANGED <<files, owner, clash>>
    /\ UNCHANGED <<pipeVars, genVars, melodyVars, dests>>

ConcNext ==
    \/ \E r \in Runs : CRender(r)
    \/ \E r \in Runs : CRenderFallback(r)
    \/ \E r \in Runs : CSynth(r, "fluidsynth")
    \/ \E r \in Runs : CSynth(r, "timidity")
    \/ \E r \in Runs : CSynthTest(r, "fluidsynth")
    \/ \E r \in Runs : CSynthTest(r, "timidity")
    \/ \E r \in Runs : CEncode(r, "fluidsynth")
    \/ \E r \in Runs : CEncode(r, "timidity")
    \/ \E r \in Runs : CUnlinkWaveform(r, "fluidsynth")
    \/ \E r \in Runs : CUnlinkWaveform(r, "timidity")
    \/ \E r \in Runs : CDirect(r)
    \/ \E r \in Runs : CDirectTest(r)
    \/ \E r \in Runs : CCleanup(r)
    \/ \E r \in Runs : CCleanupUnlink(r)

SpecConc == ConcInit /\ [][ConcNext]_vars

-----------------------------------------------------------------------------
(* create_midi_file on a melody: what each backend writes.                 *)

\* int(x): truncation toward zero.
int(x) == IF x[1] >= 0 THEN x[1] \div x[2] ELSE -((-x[1]) \div x[2])

\* mido.MidiFile().ticks_per_beat, the default of the library.
ticks_per_beat == 480

\* Lines 254-255: int(seconds * bpm / 60.0 * ticks_per_beat)
to_ticks(seconds, tempo) ==
    int(RMul(RMul(RMul(seconds, RInt(tempo)), Rat(1, 60)), RInt(ticks_per_beat)))

\* Variant: current_tick is set to the start of the note, not to its end.
RECURSIVE simple_track_ForgetsDuration(_, _, _, _)
simple_track_ForgetsDuration(track, current_tick, notes, tempo) ==
    IF notes = <<>> THEN track
    ELSE LET start_tick == to_ticks(notes[1].start_time, tempo)
             duration_ticks == to_ticks(notes[1].duration, tempo)
             wait_ticks == start_tick - current_tick
             on == [type |-> "note_on", note |-> notes[1].pitch,
                    time |-> IF wait_ticks > 0 THEN wait_ticks ELSE 0]
             off == [type |-> "note_off", note |-> notes[1].pitch,
                     time |-> duration_ticks]
         IN simple_track_ForgetsDuration(track \o <<on, off>>, start_tick,
                                         Tail(notes), tempo)

\* Lines 252-266: the messages appended for the remaining notes.
RECURSIVE simple_track(_, _, _, _)
simple_track(track, current_tick, notes, tempo) ==
    IF notes = <<>> THEN track
    ELSE LET start_tick == to_ticks(notes[1].start_time, tempo)
             duration_ticks == to_ticks(notes[1].duration, tempo)
             wait_ticks == start_tick - current_tick
             on == [type |-> "note_on", note |-> notes[1].pitch,
                    time |-> IF wait_ticks > 0 THEN wait_ticks ELSE 0]
             off == [type |-> "note_off", note |-> notes[1].pitch,
                     time |-> duration_ticks]
         IN simple_track(track \o <<on, off>>, start_tick + duration_ticks,
                         Tail(notes), tempo)

\* Lines 240-266: the track create_simple_midi saves, after the set_tempo
\* message.
create_simple_midi_track(notes, tempo) ==
    simple_track(<<[type |-> "set_tempo", note |-> 0, time |-> 0]>>, 0, notes, tempo)

\* Lines 211-218: the notes create_midi_with_midiutil adds, in beats.
midiutil_notes(notes, tempo) ==
    [i \in 1..Len(notes) |->
        [type |-> "note", note |-> notes[i].pitch,
         time |-> RMul(RMul(notes[i].start_time, RInt(tempo)), Rat(1, 60)),
         duration |-> RMul(RMul(notes[i].duration, RInt(tempo)), Rat(1, 60))]]

\* A tempo the MIDI tempo event cannot hold: both libraries store
\* 60000000 / bpm microseconds per beat in three unsigned bytes, and raise
\* for a value outside 0 .. 2^24 - 1.
TempoRejected(tempo) == tempo <= 0 \/ 60000000 \div tempo > 16777215

\* mido refuses to save a message with a negative delta time.
TrackRejected(track) == \E i \in 1..Len(track) : track[i].time < 0

-----------------------------------------------------------------------------
(* The calls on bounded inputs.                                            *)

StringsUpTo(alphabet, n) == UNION {[1..k -> alphabet] : k \in 0..n}

MaxKeyLen == 4
KeyAlphabet == {"C", "A", "H", "#", "b", "m", "i", "n"}
GrammarKeys == KeyNames \cup {name \o <<"m">> : name \in KeyNames}
KeyInputs == StringsUpTo(KeyAlphabet, MaxKeyLen) \cup GrammarKeys

MaxLyricsLen == 7
LyricsAlphabet == {"a", " ", "\n"}

RECURSIVE Words(_)
Words(n) == IF n <= 1 THEN <<"a">> ELSE <<"a", " ">> \o Words(n - 1)

ScenarioLyrics ==
    <<"Y", "o", " ", "y", "o", " ", "y", "o", "\n",
      "L", "i", "s", "t", "e", "n", " ", "u", "p", " ", "n", "o", "w">>

LongLyrics ==
    { ScenarioLyrics, Words(5), Words(6) \o <<"\n">> \o Words(1),
      Words(9) \o <<"\n", " ", "\n">> \o Words(5),
      <<" ", "\n", "\n", " ", " ">> \o Words(8) \o <<" ", "\n">> }

ShortLyrics == StringsUpTo(LyricsAlphabet, 2) \cup LongLyrics
LyricsInputs == StringsUpTo(LyricsAlphabet, MaxLyricsLen) \cup LongLyrics

\* Tempi for which 60.0 / bpm is exact in binary floating point, so that the
\* float seconds of the code are the fractions used here.
PositiveBpms == {96, 120}
InvalidBpms == {-60, 0}

\* The inputs: every key with the scenario lyrics; every lyric text with
\* the default key; invalid tempi and every set of libraries with the
\* short texts.
MelodyInputs ==
    [key : KeyInputs, lyrics : {ScenarioLyrics}, bpm : {120}, libs : {{"mido"}}]
    \cup [key : {DefaultKey}, lyrics : LyricsInputs, bpm : PositiveBpms,
          libs : {{"mido"}}]
    \cup [key : {DefaultKey, <<"A", "m">>, <<"B">>}, lyrics : ShortLyrics,
          bpm : PositiveBpms \cup InvalidBpms, libs : SUBSET Libraries]

MelodyInit ==
    /\ PipelineParked
    /\ ConcIdle
    /\ GenIdle
    /\ \E in \in MelodyInputs :
          /\ key = in.key
          /\ lyrics = in.lyrics
          /\ bpm = in.bpm
          /\ libs = in.libs
    /\ mpc = "start"
    /\ mres = "none"
    /\ scale = <<>>
    /\ melody = <<>>
    /\ score = NoScore

\* get_scale_notes(key), line 88.
CallGetScaleNotes ==
    /\ mpc = "start"
    /\ scale' = get_scale_notes(key)
    /\ mpc' = "scaled"
    /\ UNCHANGED <<pipeVars, genVars, concVars, key, lyrics, mres, melody, score>>

\* generate_melody_from_lyrics(lyrics, bpm, key); 60.0 / bpm on line 92
\* raises ZeroDivisionError for bpm = 0.
CallGenerateMelody ==
    /\ mpc = "scaled"
    /\ IF bpm = 0
       THEN mres' = "raised" /\ UNCHANGED melody
       ELSE /\ mres' = "returned"
            /\ melody' = generate_melody_from_lyrics(lyrics, bpm, key)
    /\ mpc' = "melody"
    /\ UNCHANGED <<pipeVars, genVars, concVars, key, lyrics, scale, score>>

\* create_midi_file(melody, path, bpm, key) without I/O faults: the selected
\* library backend writes, or raises and the in-house writer is called.
CallCreateMidiFile ==
    /\ \/ mpc = "melody" /\ mres = "returned"
       \/ mpc = "given"
    /\ LET selected == SelectScoreBackend(libs)
           writer == IF selected = "midiutil" /\ ~TempoRejected(bpm)
                     THEN "midiutil"
                     ELSE IF selected = "simple" THEN "simple"
                     ELSE ScoreFallback(selected)
           track == create_simple_midi_track(melody, bpm)
       IN IF writer = "midiutil"
          THEN /\ score' = [backend |-> "midiutil",
                            events |-> midiutil_notes(melody, bpm)]
               /\ mres' = "returned"
          ELSE IF \/ SimpleMidiRaises(libs, FALSE)
                  \/ TempoRejected(bpm)
                  \/ TrackRejected(track)
               THEN /\ score' = NoScore
                    /\ mres' = "raised"
               ELSE /\ score' = [backend |-> "simple", events |-> track]
                    /\ mres' = "returned"
    /\ mpc' = "score"
    /\ UNCHANGED <<pipeVars, genVars, concVars, key, lyrics, scale, melody>>

MelodyNext ==
    \/ CallGetScaleNotes
    \/ CallGenerateMelody
    \/ CallCreateMidiFile

SpecMelody == MelodyInit /\ [][MelodyNext]_vars

-----------------------------------------------------------------------------
(* create_midi_file called with a melody of the caller's own: notes that   *)
(* may overlap and whose seconds do not fall on a tick.  The seconds are   *)
(* binary fractions and the tempi divide 60 into one, so that the float    *)
(* products of lines 254-255 are the exact ones.                           *)

GivenDurations == {<<3, 1024>>, <<1, 4>>, <<1, 2>>}
GivenStarts == {<<0, 1>>, <<3, 1024>>, <<1, 4>>, <<1, 2>>}
GivenNotes == [pitch : {60}, duration : GivenDurations, start_time : GivenStarts]
MaxGivenNotes == 2
GivenMelodies == UNION {[1..n -> GivenNotes] : n \in 0..MaxGivenNotes}
GivenBpms == {60, 120}

ScoreInit ==
    /\ PipelineParked
    /\ ConcIdle
    /\ GenIdle
    /\ bpm \in GivenBpms
    /\ libs \in SUBSET Libraries
    /\ key = DefaultKey
    /\ lyrics = <<>>
    /\ mpc = "given"
    /\ mres = "none"
    /\ scale = <<>>
    /\ melody \in GivenMelodies
    /\ score = NoScore

ScoreNext == CallCreateMidiFile

SpecScore == ScoreInit /\ [][ScoreNext]_vars

-----------------------------------------------------------------------------
(* generate_song_lyrics (app/generator.py).                                *)

\* Lower-case and upper-case letters.
CasePairs ==
    {<<"a", "A">>, <<"b", "B">>, <<"c", "C">>, <<"d", "D">>, <<"e", "E">>,
    <<"f", "F">>, <<"g", "G">>, <<"h", "H">>, <<"i", "I">>, <<"j", "J">>,
    <<"k", "K">>, <<"l", "L">>, <<"m", "M">>, <<"n", "N">>, <<"o", "O">>,
    <<"p", "P">>, <<"q", "Q">>, <<"r", "R">>, <<"s", "S">>, <<"t", "T">>,
    <<"u", "U">>, <<"v", "V">>, <<"w", "W">>, <<"x", "X">>, <<"y", "Y">>,
    <<"z", "Z">>}

lower_char(c) ==
    IF \E q \in CasePairs : q[2] = c
    THEN (CHOOSE q \in CasePairs : q[2] = c)[1] ELSE c
upper_char(c) ==
    IF \E q \in CasePairs : q[1] = c
    THEN (CHOOSE q \in CasePairs : q[1] = c)[2] ELSE c

\* str.lower() and str.capitalize()
lower(str) == [i \in 1..Len(str) |-> lower_char(str[i])]
capitalize(str) ==
    [i \in 1..Len(str) |-> IF i = 1 THEN upper_char(str[i]) ELSE lower_char(str[i])]

\* str.startswith
startswith(str, prefix) ==
    /\ Len(prefix) <= Len(str)
    /\ SubSeq(str, 1, Len(prefix)) = prefix

\* The random module: draw number k (from 0) of the stream.
Draw(k) == stream[(k % Len(stream)) + 1]
\* random.choice(seq) and random.randint(a, b) on draw number k.
choice(seq, k) == seq[(Draw(k) % Len(seq)) + 1]
randint(a, b, k) == a + (Draw(k) % (b - a + 1))

\* The word banks (lines 125-129).
\* The word banks (lines 125-129) and themes.get(theme.lower(),
\* themes["love"]), line 147.
word_bank_of(th) ==
    LET
        themes_love ==
            <<<<"h", "e", "a", "r", "t">>,
               <<"l", "o", "v", "e">>,
               <<"b", "a", "b", "y">>,
               <<"k", "i", "s", "s">>,
               <<"h", "o", "l", "d">>,
               <<"t", "o", "u", "c", "h">>,
               <<"f", "e", "e", "l">>>>
        themes_party ==
            <<<<"d", "a", "n", "c", "e">>,
               <<"m", "o", "v", "e">>,
               <<"n", "i", "g", "h", "t">>,
               <<"c", "l", "u", "b">>,
               <<"f", "u", "n">>,
               <<"j", "u", "m", "p">>,
               <<"w", "i", "l", "d">>>>
        themes_sad ==
            <<<<"t", "e", "a", "r", "s">>,
               <<"c", "r", "y">>,
               <<"a", "l", "o", "n", "e">>,
               <<"p", "a", "i", "n">>,
               <<"h", "u", "r", "t">>,
               <<"m", "i", "s", "s">>,
               <<"g", "o", "n", "e">>>>
    IN CASE lower(th) = <<"p", "a", "r", "t", "y">> -> themes_party
         [] lower(th) = <<"s", "a", "d">> -> themes_sad
         [] OTHER -> themes_love

\* The templates (lines 131-144), as literal text and replacement fields,
\* and templates.get(style.lower(), templates["rap"]), line 148.
template_of(st) ==
    LET
        templates_rap ==
            << <<<<"text", <<"Y", "o", ",", " ">>>>,
                 <<"field", "line1">>,
                 <<"text", <<" ">>>>,
                 <<"field", "rhyme1">>>>,
               <<<<"text", <<"L", "i", "s", "t", "e", "n", " ", "u", "p", ",", " ">>>>,
                 <<"field", "line2">>,
                 <<"text", <<" ">>>>,
                 <<"field", "rhyme2">>>>,
               <<<<"field", "line3">>,
                 <<"text", <<" ">>>>,
                 <<"field", "rhyme3">>,
                 <<"text", <<",", " ", "t", "h", "a", "t", "'", "s", " ", "a", " ", "f", "a", "c", "t">>>>>>,
               <<<<"field", "line4">>,
                 <<"text", <<" ">>>>,
                 <<"field", "rhyme4">>,
                 <<"text", <<",", " ", "n", "o", " ", "l", "o", "o", "k", "i", "n", "'", " ", "b", "a", "c", "k">>>>>> >>
        templates_pop ==
            << <<<<"text", <<"O", "h", ",", " ">>>>,
                 <<"field", "line1">>,
                 <<"text", <<" ">>>>,
                 <<"field", "rhyme1">>>>,
               <<<<"field", "line2">>,
                 <<"text", <<" ">>>>,
                 <<"field", "rhyme2">>,
                 <<"text", <<",", " ", "c", "a", "n", "'", "t", " ", "y", "o", "u", " ", "s", "e", "e", "?">>>>>>,
               <<<<"field", "line3">>,
                 <<"text", <<" ">>>>,
                 <<"field", "rhyme3">>,
                 <<"text", <<",", " ", "i", "t", "'", "s", " ", "y", "o", "u", " ", "a", "n", "d", " ", "m", "e">>>>>>,
               <<<<"field", "line4">>,
                 <<"text", <<" ">>>>,
                 <<"field", "rhyme4">>,
                 <<"text", <<",", " ", "w", "i", "l", "d", " ", "a", "n", "d", " ", "f", "r", "e", "e">>>>>> >>
    IN IF lower(st) = <<"p", "o", "p">> THEN templates_pop ELSE templates_rap

\* t.format(**fields)
RECURSIVE format(_, _)
format(t, fields) ==
    IF t = <<>> THEN <<>>
    ELSE (IF t[1][1] = "text" THEN t[1][2] ELSE fields[t[1][2]])
         \o format(Tail(t), fields)

\* get_rhyme_pair (lines 151-158), on draw number k: <<word1, rhyme>>.
get_rhyme_pair(word_bank, k) ==
    LET word1 == choice(word_bank, k)
    IN <<word1, IF endswith(word1, <<"e">>) THEN word1 \o <<"e">>
                ELSE word1 \o <<"e", "e">> >>

\* Lines 163-181: one verse, its first draw being number k: two rhyme pairs,
\* then four draws for each of the four templates; the empty line follows.
verse(word_bank, template, k) ==
    LET pair1 == get_rhyme_pair(word_bank, k)
        pair2 == get_rhyme_pair(word_bank, k + 1)
    IN [j \in 1..Len(template) |->
          format(template[j],
                 [line1 |-> choice(word_bank, k + 2 + 4 * (j - 1)),
                  rhyme1 |-> pair1[2],
                  line2 |-> choice(word_bank, k + 3 + 4 * (j - 1)),
                  rhyme2 |-> pair2[2],
                  line3 |-> choice(word_bank, k + 4 + 4 * (j - 1)),
                  rhyme3 |-> pair1[2],
                  line4 |-> choice(word_bank, k + 5 + 4 * (j - 1)),
                  rhyme4 |-> pair2[2]])]
       \o << <<>> >>

\* The draws one verse takes.
DrawsPerVerse == 2 + 4 * 4
NumVerses == 4

RECURSIVE verses(_, _, _, _)
verses(word_bank, template, n, k) ==
    IF n = 0 THEN <<>>
    ELSE verse(word_bank, template, k)
         \o verses(word_bank, template, n - 1, k + DrawsPerVerse)

RuleKeys == << <<"C">>, <<"D">>, <<"E">>, <<"F">>, <<"G">>, <<"A">>, <<"B">> >>
AiKeys == RuleKeys \o << <<"A", "m">>, <<"D", "m">>, <<"E", "m">> >>

\* _generate_rule_based (lines 122-187), its first draw being number k.
generate_rule_based(th, st, k) ==
    LET after == k + NumVerses * DrawsPerVerse
    IN [title |-> capitalize(th) \o <<" ", "S", "o", "n", "g">>,
        lyrics |-> verses(word_bank_of(th), template_of(st), NumVerses, k),
        bpm |-> randint(80, 120, after),
        key |-> choice(RuleKeys, after + 1)]

\* The prefixes of the lines _extract_lyrics_from_text skips (line 102).
SkippedPrefixes ==
    { <<"テ", "ー", "マ">>, <<"T", "h", "e", "m", "e">>,
      <<"ス", "タ", "イ", "ル">>, <<"S", "t", "y", "l", "e">> }

\* Lines 99-106: the stripped lines that are kept.
RECURSIVE kept_lines(_)
kept_lines(ls) ==
    IF ls = <<>> THEN <<>>
    ELSE LET line == strip(ls[1])
         IN IF line = <<>> \/ \E pre \in SkippedPrefixes : startswith(line, pre)
            THEN kept_lines(Tail(ls))
            ELSE IF Len(line) > 3
                 THEN <<line>> \o kept_lines(Tail(ls))
                 ELSE kept_lines(Tail(ls))

\* Lines 113-117: an empty line after every fourth line but the last.
RECURSIVE formatted_lines(_, _)
formatted_lines(ls, i) ==
    IF i >= Len(ls) THEN <<>>
    ELSE <<ls[i + 1]>>
         \o (IF (i + 1) % 4 = 0 /\ i < Len(ls) - 1 THEN << <<>> >> ELSE <<>>)
         \o formatted_lines(ls, i + 1)

\* list[:n]
take(ls, n) == SubSeq(ls, 1, IF Len(ls) < n THEN Len(ls) ELSE n)

\* _extract_lyrics_from_text (lines 94-119).
extract_lyrics_from_text(text) ==
    LET ls == kept_lines(split_on(text, "\n", <<>>, <<>>))
        doubled == IF Len(ls) < 4 THEN ls \o ls ELSE ls
    IN take(formatted_lines(doubled, 0), 32)

\* _generate_with_ai after generate_with_gguf returned text (lines 76-91),
\* the next draw being number 0.
generate_with_ai(th, st, text) ==
    LET lyrics_lines == extract_lyrics_from_text(text)
        short == Len(lyrics_lines) < 8
        additional == generate_rule_based(th, st, 0)
        after == IF short THEN NumVerses * DrawsPerVerse + 2 ELSE 0
    IN [title |-> capitalize(th) \o <<" ", "S", "o", "n", "g">>,
        lyrics |-> IF short THEN lyrics_lines \o take(additional.lyrics, 8)
                   ELSE lyrics_lines,
        bpm |-> IF st = <<"r", "a", "p">> THEN randint(80, 140, after)
                ELSE randint(70, 120, after),
        key |-> choice(AiKeys, after + 1)]

\* Variant: the exception of the AI path is not caught.
AfterAiRaised_Escapes == "raised"

\* generate_song_lyrics, lines 35-39: an exception of _generate_with_ai is
\* caught and the rule-based generator is called.
AfterAiRaised == "fallback"

\* The arguments, the random stream and the texts of the model.
StreamLen == 2
DrawValues == {0, 1, 5, 40}
ThemeInputs == { <<"l", "o", "v", "e">>, <<"p", "a", "r", "t", "y">>, <<"S", "a", "d">>, <<"z", "e", "n">>, <<>> }
StyleInputs == { <<"r", "a", "p">>, <<"P", "o", "p">>, <<"j", "a", "z", "z">> }

RECURSIVE AiLines(_)
AiLines(n) ==
    IF n <= 1 THEN <<"a", "b", "c", "d", "e">>
    ELSE <<"a", "b", "c", "d", "e", "\n">> \o AiLines(n - 1)

AiTexts ==
    { <<>>, AiLines(3), AiLines(9),
      <<"T", "h", "e", "m", "e", ":", " ", "x", "\n">> \o AiLines(5) \o <<"\n", "\n", "a", "b", "\n">> \o AiLines(4),
      <<"テ", "ー", "マ", ":", " ", "x", "\n", " ", " ", "a", "b", "c", "d", " ", " ">> }
AiOutcomes ==
    {[raised |-> TRUE, text |-> <<>>]}
        \cup {[raised |-> FALSE, text |-> t] : t \in AiTexts}

GenInit ==
    /\ PipelineIdle
    /\ ConcIdle
    /\ MelodyIdle
    /\ theme \in ThemeInputs
    /\ style \in StyleInputs
    /\ use_ai \in BOOLEAN
    /\ stream \in [1..StreamLen -> DrawValues]
    /\ gpc = "start"
    /\ gres = "none"
    /\ ai = NoAi
    /\ calls = <<>>
    /\ song = NoSong

\* generate_song_lyrics with use_ai: _generate_with_ai returns a Song, or
\* raises and the except clause is entered.
GenerateWithAi ==
    /\ gpc = "start"
    /\ use_ai
    /\ calls' = Append(calls, "ai")
    /\ \E out \in AiOutcomes :
          /\ ai' = out
          /\ IF out.raised
             THEN /\ gpc' = AfterAiRaised
                  /\ gres' = IF AfterAiRaised = "raised" THEN "raised" ELSE gres
                  /\ UNCHANGED song
             ELSE /\ song' = generate_with_ai(theme, style, out.text)
                  /\ gpc' = "done"
                  /\ gres' = "returned"
    /\ UNCHANGED <<pipeVars, concVars, melodyVars, theme, style, use_ai, stream>>

\* _generate_rule_based, called without use_ai (line 41) or from the except
\* clause (line 39).
GenerateRuleBased ==
    /\ \/ gpc = "start" /\ ~use_ai
       \/ gpc = "fallback"
    /\ calls' = Append(calls, "rule")
    /\ song' = generate_rule_based(theme, style, 0)
    /\ gpc' = "done"
    /\ gres' = "returned"
    /\ UNCHANGED <<pipeVars, concVars, melodyVars, theme, style, use_ai, stream, ai>>

GenNext ==
    \/ GenerateWithAi
    \/ GenerateRuleBased

SpecGen == GenInit /\ [][GenNext]_vars

-----------------------------------------------------------------------------
(* Properties.                                                             *)

Range(q) == {q[i] : i \in 1..Len(q)}
IsPrefix(q, r) == Len(q) <= Len(r) /\ \A i \in 1..Len(q) : q[i] = r[i]

StageOrder == <<"melody", "render", "transcode">>
AudioOrder == <<"fluidsynth", "timidity", "ffmpeg_direct">>

Finished == pc = "done"
Transcoded == "transcode" \in Range(stages)
AllBackendsFailed == \A b \in AudioBackends : report[b] = "false"

\* C1: once compose_music_from_lyrics has returned or raised, the transient
\* score file output_path.with_suffix('.mid') does not exist.  Stated for the
\* runs in which create_midi_file completed and convert_midi_to_mp3 was called.
C1_ScoreFileDeletedOnEveryExit ==
    (Finished /\ Transcoded) => fs[midi_path] = "absent"

\* C2: whenever the call ends in failure no file, in particular no partial or
\* zero-byte file, exists at the destination path.
C2_NoDestinationFileOnFailure ==
    (Finished /\ outcome = "raised") => fs[output_path] = "absent"

\* C3: with no soundfont file and neither timidity nor ffmpeg installed,
\* convert_midi_to_mp3 raises the fatal transcode error, and a destination
\* that did not exist before the call does not exist after it.
NoToolPresent == sfExists = {} /\ tools \cap {"timidity", "ffmpeg"} = {}

C3_NoToolsRaisesAndLeavesNoDestination ==
    (Finished /\ Transcoded /\ NoToolPresent)
        => /\ outcome = "raised"
           /\ error = "TranscodeFailure"
           /\ destBefore = "absent" => fs[mp3_path] = "absent"

C3_Witness ==
    /\ Finished /\ Transcoded /\ NoToolPresent
    /\ destBefore = "absent"
    /\ error = "TranscodeFailure"

\* C4: the audio backends are invoked in the order soundfont synthesizer,
\* alternate synthesizer, direct converter; a backend is invoked only after
\* every earlier one reported failure, none after a reported success; and the
\* fatal transcode error is raised if and only if all three reported failure.
C4_BackendOrderAndFatalIffAllFail ==
    /\ IsPrefix(audioTried, AudioOrder)
    /\ \A i \in 2..Len(audioTried) : report[audioTried[i - 1]] = "false"
    /\ \A b \in AudioBackends : report[b] # "none" => b \in Range(audioTried)
    /\ \A b \in AudioBackends :
          report[b] = "true" => /\ audioTried[Len(audioTried)] = b
                                /\ pc \in {"cleanup", "done"}
                                /\ outcome # "raised"
    /\ (Transcoded /\ outcome = "raised") <=> AllBackendsFailed
    /\ AllBackendsFailed => Finished /\ error = "TranscodeFailure"

C4_Witness ==
    /\ Finished
    /\ outcome = "returned"
    /\ report["fluidsynth"] = "false"
    /\ report["timidity"] = "true"
    /\ audioTried = <<"fluidsynth", "timidity">>

\* C5: a backend reports success only if its process exited with code zero
\* and its output file (the waveform for backends 1 and 2, the destination
\* for backend 3) exists and is non-empty.
C5_SuccessImpliesNonEmptyOutput ==
    \A b \in AudioBackends :
        report[b] = "true" => synth[b].rc = "ok" /\ synth[b].out = "data"

\* C6: a timeout of an external process has the same effect as a non-zero
\* exit code: the backend reports failure and the next backend is tried; an
\* error leaves the chain only when all three backends have failed.
NextTried(b) ==
    CASE b = "fluidsynth" -> pc = "timidity" \/ "timidity" \in Range(audioTried)
      [] b = "timidity" -> pc = "ffmpeg_direct" \/ "ffmpeg_direct" \in Range(audioTried)
      [] b = "ffmpeg_direct" -> Finished /\ error = "TranscodeFailure"

C6_TimeoutIsLikeNonZeroExit ==
    /\ \A b \in AudioBackends :
          (synth[b].rc \in {"timeout", "nonzero"} \/ enc[b] \in {"timeout", "nonzero"})
              => report[b] = "false" /\ NextTried(b)
    /\ \A f \in FileStates :
          /\ FluidsynthAfterRun("timeout", f) = FluidsynthAfterRun("nonzero", f)
          /\ TimidityAfterRun("timeout", f) = TimidityAfterRun("nonzero", f)
          /\ FfmpegDirectAfterRun("timeout", f) = FfmpegDirectAfterRun("nonzero", f)
    /\ EncodeResult("timeout") = EncodeResult("nonzero")
    /\ (Transcoded /\ outcome = "raised")
          => error = "TranscodeFailure" /\ AllBackendsFailed

C6_Witness ==
    /\ Finished
    /\ outcome = "returned"
    /\ synth["fluidsynth"].rc = "timeout"
    /\ enc["timidity"] = "timeout"
    /\ report["ffmpeg_direct"] = "true"

\* C7: if no soundfont file is found and the alternate synthesizer succeeds
\* (exit code zero, waveform written and non-empty), convert_midi_to_mp3
\* returns without error, a non-empty file exists at the destination and the
\* intermediate waveform file does not exist.
C7_TimiditySuccessYieldsAudioAndNoWaveform ==
    (/\ Finished
     /\ sfExists = {}
     /\ synth["timidity"] = [rc |-> "ok", out |-> "data"])
        => /\ outcome = "returned"
           /\ fs[mp3_path] = "data"
           /\ fs[wav_path] = "absent"

\* C8: a score backend that raises, or whose library is absent, is skipped
\* and the next backend in the order notation library, MIDI-writer library,
\* in-house writer is tried: after the notation backend raised, the
\* MIDI-writer backend (when its library is available) is attempted before the
\* in-house writer; a render failure is raised only after every backend has
\* been attempted or found absent.
C8_NextScoreBackendIsTried ==
    /\ ("music21" \in Range(scoreTried) /\ "midiutil" \in libs
            /\ "simple" \in Range(scoreTried))
          => "midiutil" \in Range(scoreTried)
    /\ error = "RenderFailure"
          => \A b \in ScoreBackends :
                b \in Range(scoreTried) \/ (b # "simple" /\ b \notin libs)

RenderCompleted == pc = "transcode" \/ Transcoded

\* C9 as stated: the in-house writer needs no optional component, so once it
\* is reached it writes the score file unless an I/O fault occurs, and a
\* render failure is raised only by an I/O fault.
C9_InHouseWriterNeedsNoLibrary ==
    /\ ("simple" \in Range(scoreTried) /\ ~ioFault)
          => RenderCompleted /\ error # "RenderFailure"
    /\ error = "RenderFailure" => ioFault

\* C10: a failure of a stage aborts compose_music_from_lyrics at once and
\* reaches the caller; the stages run in the order melody synthesis, score
\* rendering, transcoding, each at most once; after a failed score rendering
\* the transcoder is never invoked.
C10_StageFailureAbortsAtOnce ==
    /\ IsPrefix(stages, StageOrder)
    /\ failed # {} => /\ Finished
                      /\ outcome = "raised"
                      /\ failed = {stages[Len(stages)]}
    /\ "render" \in failed => ~Transcoded /\ audioTried = <<>>
    /\ outcome = "raised" => failed # {} /\ error # "none"
    /\ outcome = "returned" => failed = {} /\ stages = StageOrder

C10_Witness ==
    /\ Finished
    /\ "render" \in failed
    /\ stages = <<"melody", "render">>
    /\ error = "RenderFailure"

\* The score and waveform paths of each run differ from every path of the
\* other run.
DerivedPathsDisjoint ==
    \A r \in Runs : \A q \in Runs \ {r} :
        {score_path(dests[r]), waveform_path(dests[r])} \cap PathsOf(dests[q]) = {}

\* C11 as stated: for two concurrent runs with distinct destination paths,
\* the score path and the waveform path of one run differ from every path of
\* the other, so that no run reads, overwrites or deletes a file of the
\* other.  Stated by its conclusion, which a shared path falsifies.
C11_DistinctDestinationsNeverCollide ==
    dests[1] # dests[2] => clash = {}

\* C11 amended: the same for two concurrent runs whose destination paths
\* differ in their stem (the path without its suffix).
C11_DistinctStemsNeverCollide ==
    dests[1][1] # dests[2][1] => DerivedPathsDisjoint /\ clash = {}

C11_Witness ==
    /\ dests[1][1] # dests[2][1]
    /\ \A r \in Runs : rpc[r] = "done"
    /\ \A p \in ConcPaths : owner[p] # 0 <=> p \in {dests[1], dests[2]}

-----------------------------------------------------------------------------
(* Scales and melodies.                                                    *)

ScaleComputed == mpc # "start"
MelodyReturned == mpc = "melody" /\ mres = "returned"

\* The pitch of a root token of the key grammar: the letter's pitch in the
\* octave of middle C, raised by '#' and lowered by 'b'.
LetterPitch(c) ==
    CASE c = "C" -> 60 [] c = "D" -> 62 [] c = "E" -> 64 [] c = "F" -> 65
      [] c = "G" -> 67 [] c = "A" -> 69 [] c = "B" -> 71
RootPitch(token) ==
    LetterPitch(token[1])
        + (IF Len(token) = 1 THEN 0 ELSE IF token[2] = "#" THEN 1 ELSE -1)

\* A key with one optional trailing 'm' taken off.
HasMinorSuffix(k) == k # <<>> /\ k[Len(k)] = "m"
RootToken(k) == IF HasMinorSuffix(k) THEN SubSeq(k, 1, Len(k) - 1) ELSE k

StrictlyIncreasing(q) == \A i \in 1..(Len(q) - 1) : q[i] < q[i + 1]

\* C12: for every key of the grammar whose root token is in the table, with
\* or without a trailing 'm', get_scale_notes returns exactly 7 strictly
\* increasing pitches: root + (0,2,4,5,7,9,11) without the 'm' and
\* root + (0,2,3,5,7,8,10) with it, the root being 60 for C up to 71 for B.
C12_GrammarKeysResolveToRootAndPattern ==
    (ScaleComputed /\ RootToken(key) \in KeyNames) =>
        LET root == RootPitch(RootToken(key))
            offsets == IF HasMinorSuffix(key)
                       THEN <<0, 2, 3, 5, 7, 8, 10>>
                       ELSE <<0, 2, 4, 5, 7, 9, 11>>
        IN /\ Len(scale) = 7
           /\ StrictlyIncreasing(scale)
           /\ root \in 60..71
           /\ scale = [i \in 1..7 |-> root + offsets[i]]

C12_Witness ==
    /\ ScaleComputed
    /\ key = <<"F", "#", "m">>
    /\ scale = <<66, 68, 69, 71, 73, 74, 76>>

\* C13: for every key that is not recognized (its token, after one optional
\* trailing 'm' is taken off, is not in the root table) get_scale_notes
\* returns the C-major scale.
C13_UnrecognizedKeyIsCMajor ==
    (ScaleComputed /\ RootToken(key) \notin KeyNames) =>
        scale = <<60, 62, 64, 65, 67, 69, 71>>

\* The number of notes the lines of a text call for: every line with a
\* word counts max(4, words), a word being a maximal run of characters
\* other than white space.
RECURSIVE NotesCalledFor(_, _, _)
NotesCalledFor(text, in_word, line_words) ==
    LET line_total == IF line_words = 0 THEN 0
                      ELSE IF line_words < 4 THEN 4 ELSE line_words
    IN IF text = <<>> THEN line_total
       ELSE IF text[1] = "\n"
            THEN line_total + NotesCalledFor(Tail(text), FALSE, 0)
       ELSE IF text[1] \in Whitespace
            THEN NotesCalledFor(Tail(text), FALSE, line_words)
       ELSE NotesCalledFor(Tail(text), TRUE,
                           IF in_word THEN line_words ELSE line_words + 1)

\* C14: for lyrics whose non-blank lines have w_1..w_N words the melody has
\* exactly the sum of max(4, w_i) notes; blank lines contribute none.
C14_NoteCountIsSumOfMaxFourWords ==
    MelodyReturned => Len(melody) = NotesCalledFor(lyrics, FALSE, 0)

C14_Witness ==
    /\ MelodyReturned
    /\ lyrics = Words(9) \o <<"\n", " ", "\n">> \o Words(5)
    /\ Len(melody) = 14

\* C15: with bpm > 0 every note has a strictly positive duration and a start
\* time >= 0, and each note starts no earlier than the end of the note
\* before it, within a line and across lines.
C15_NotesPositiveAndNonOverlapping ==
    (MelodyReturned /\ bpm > 0) =>
        /\ \A i \in 1..Len(melody) :
              /\ RLess(<<0, 1>>, melody[i].duration)
              /\ RLeq(<<0, 1>>, melody[i].start_time)
        /\ \A i \in 1..(Len(melody) - 1) :
              RLeq(RAdd(melody[i].start_time, melody[i].duration),
                   melody[i + 1].start_time)

\* Two lines: note 5 starts after the rest that follows note 4.
C15_Witness ==
    /\ MelodyReturned
    /\ bpm > 0
    /\ Len(melody) >= 5
    /\ RLess(RAdd(melody[4].start_time, melody[4].duration),
             melody[5].start_time)

\* C16: for the lyrics 'Yo yo yo' newline 'Listen up now', bpm 120 and key
\* 'C' the melody has exactly 8 notes, 4 per line, and note 0 has pitch 60,
\* duration 1 s and start time 0.
C16_ScenarioMelody ==
    (MelodyReturned /\ lyrics = ScenarioLyrics /\ bpm = 120 /\ key = <<"C">>) =>
        /\ Len(melody) = 8
        /\ melody[1] = [pitch |-> 60, duration |-> <<1, 1>>, start_time |-> <<0, 1>>]
        /\ melody[5].pitch = 60
        /\ RLess(RAdd(melody[4].start_time, melody[4].duration),
                 melody[5].start_time)

C16_Witness ==
    /\ MelodyReturned
    /\ lyrics = ScenarioLyrics /\ bpm = 120 /\ key = <<"C">>
    /\ [i \in 1..Len(melody) |-> melody[i].pitch]
          = <<60, 62, 64, 65, 60, 62, 64, 65>>

\* C18: a zero or negative bpm is replaced by the default 120 without an
\* error: generate_melody_from_lyrics raises nothing and returns the melody
\* of bpm = 120.
C18_InvalidBpmReplacedByDefault ==
    (mpc = "melody" /\ bpm <= 0) =>
        /\ mres = "returned"
        /\ melody = generate_melody_from_lyrics(lyrics, 120, key)

Blank(text) == \A i \in 1..Len(text) : text[i] \in Whitespace

\* C19: lyrics that are empty after trimming (with a valid bpm) give an empty
\* melody without error, and create_midi_file, whichever backend is reached,
\* accepts the empty melody and writes a score file without raising.
C19_BlankLyricsGiveEmptyMelodyAndScore ==
    (Blank(lyrics) /\ bpm > 0) =>
        /\ mpc = "melody" => (mres = "returned" /\ melody = <<>>)
        /\ mpc = "score" =>
              /\ melody = <<>>
              /\ mres = "returned"
              /\ score.backend \in {"midiutil", "simple"}
              /\ \A j \in 1..Len(score.events) :
                    score.events[j].type = "set_tempo"

-----------------------------------------------------------------------------
(* External commands.                                                      *)

FluidsynthReturned == report["fluidsynth"] # "none"
StartedBy(backend) == SelectSeq(cmds, LAMBDA c : c.by = backend)
Invocations(program) == SelectSeq(cmds, LAMBDA c : c.program = program)

\* C20: when no soundfont exists at a probed location convert_with_fluidsynth
\* starts no external process and returns False; otherwise it invokes
\* fluidsynth exactly once, with the first existing location of the probe
\* order.
C20_FluidsynthNeedsFirstSoundfont ==
    FluidsynthReturned =>
        IF sfExists = {}
        THEN /\ StartedBy("fluidsynth") = <<>>
             /\ report["fluidsynth"] = "false"
        ELSE /\ Len(Invocations("fluidsynth")) = 1
             /\ Invocations("fluidsynth")[1].soundfont \in sfExists
             /\ \A j \in sfExists : Invocations("fluidsynth")[1].soundfont <= j

C20_Witness ==
    /\ FluidsynthReturned
    /\ sfExists = {2, 4}
    /\ Invocations("fluidsynth") = <<Command("fluidsynth", "fluidsynth", 2)>>

-----------------------------------------------------------------------------
(* The score backends, the waveform file and the destination.              *)

\* C23: when the notation library is available and no I/O fault occurs,
\* create_midi_with_music21 builds and serializes the score itself: it
\* completes without the in-house writer being invoked.
C23_Music21BackendWritesItself ==
    ("music21" \in Range(scoreTried) /\ ~ioFault)
        => pc # "simple" /\ "simple" \notin Range(scoreTried)

TranscodeEnded == Transcoded /\ pc \in {"cleanup", "done"}

\* C27: after convert_midi_to_mp3 has returned or raised, no intermediate
\* waveform file created during the call remains, whatever the path through
\* the chain.
C27_NoWaveformLeftBehind ==
    TranscodeEnded => fs[wav_path] = "absent"

\* C28: whenever compose_music_from_lyrics returns normally a file exists at
\* the returned destination path, for every destination path.
C28_ReturnedDestinationExists ==
    (Finished /\ outcome = "returned") => exists(fs[output_path])

EncoderFailed(b) == enc[b] \in {"nonzero", "timeout", "notfound"}

\* C29: a failure of the encoder step (non-zero exit, timeout or missing
\* encoder) after a synthesizer succeeded never leaves convert_with_fluidsynth
\* or convert_with_timidity as an exception: the backend reports failure, the
\* next backend is tried, and the only error convert_midi_to_mp3 raises is
\* the one of all backends having failed.
C29_EncoderFailureIsReportedNotRaised ==
    /\ \A b \in {"fluidsynth", "timidity"} :
          EncoderFailed(b) => /\ synth[b].rc = "ok"
                              /\ report[b] = "false"
                              /\ NextTried(b)
    /\ error # "Escaped"
    /\ (Transcoded /\ outcome = "raised") => error = "TranscodeFailure"

C29_Witness ==
    /\ Finished
    /\ enc["fluidsynth"] = "nonzero"
    /\ enc["timidity"] = "timeout"
    /\ report["timidity"] = "false"
    /\ error = "TranscodeFailure"

-----------------------------------------------------------------------------
(* The melody against the reference sequence, counted in eighth notes.     *)

\* The note counts of the lines that have a word, in order.
RECURSIVE LineNoteCounts(_, _, _)
LineNoteCounts(text, in_word, line_words) ==
    LET this == IF line_words = 0 THEN <<>>
                ELSE IF line_words < 4 THEN <<4>> ELSE <<line_words>>
    IN IF text = <<>> THEN this
       ELSE IF text[1] = "\n"
            THEN this \o LineNoteCounts(Tail(text), FALSE, 0)
       ELSE IF text[1] \in Whitespace
            THEN LineNoteCounts(Tail(text), FALSE, line_words)
       ELSE LineNoteCounts(Tail(text), TRUE,
                           IF in_word THEN line_words ELSE line_words + 1)

\* The length of note i of a line, in eighth notes.
RefEighths(i) == IF i % 4 = 0 THEN 4 ELSE IF i % 2 = 0 THEN 2 ELSE 1

\* The eighth notes taken by notes 0 .. n-1 of a line.
RECURSIVE RefLineEighths(_)
RefLineEighths(n) == IF n = 0 THEN 0 ELSE RefLineEighths(n - 1) + RefEighths(n - 1)

\* The reference notes of the lines with the given note counts, the cursor
\* being at the given eighth note: <<index in line, start>> per note.
RECURSIVE RefNotes(_, _)
RefNotes(counts, cursor) ==
    IF counts = <<>> THEN <<>>
    ELSE [i \in 1..counts[1] |-> <<i - 1, cursor + RefLineEighths(i - 1)>>]
         \o RefNotes(Tail(counts), cursor + RefLineEighths(counts[1]) + 1)

\* An eighth note lasts 30 / bpm seconds.
EighthsToSeconds(e) == Rat(30 * e, bpm)

\* C22: for bpm > 0 the melody equals the reference sequence: the note index
\* restarts at 0 on each line, note i of a line has pitch scale[i mod 7] and
\* lasts 2 quarters if i mod 4 = 0, else 1 if i mod 2 = 0, else 1/2; each
\* note starts at the cursor, which advances by the note's duration and, after
\* each line, by half a quarter.
C22_MelodyEqualsReferenceSequence ==
    (MelodyReturned /\ bpm > 0) =>
        LET ref == RefNotes(LineNoteCounts(lyrics, FALSE, 0), 0)
        IN /\ Len(melody) = Len(ref)
           /\ \A j \in 1..Len(ref) :
                 melody[j] = [pitch |-> scale[(ref[j][1] % 7) + 1],
                              duration |-> EighthsToSeconds(RefEighths(ref[j][1])),
                              start_time |-> EighthsToSeconds(ref[j][2])]

\* Six words and, after a line break, one word: note 7 opens the second
\* line, half a quarter after the end of note 6.
C22_Witness ==
    /\ MelodyReturned
    /\ bpm = 96
    /\ lyrics = Words(6) \o <<"\n">> \o Words(1)
    /\ Len(melody) = 10
    /\ melody[7].pitch = scale[1]
    /\ melody[7].start_time
          = RAdd(RAdd(melody[6].start_time, melody[6].duration), Rat(30, 96))

\* C26: for every key and every lyric text, every pitch of the scale and of
\* the melody is an integer in 0..127, in fact in 60..82.
C26_PitchesWithinRange ==
    /\ ScaleComputed => \A i \in 1..Len(scale) : scale[i] \in 60..82
    /\ mpc \in {"melody", "score"}
          => \A j \in 1..Len(melody) : melody[j].pitch \in 60..82

C26_Witness ==
    /\ MelodyReturned
    /\ key = <<"B">>
    /\ scale[7] = 82
    /\ \E j \in 1..Len(melody) : melody[j].pitch = 82

-----------------------------------------------------------------------------
(* The ticks and beats the score backends write.                           *)

WrittenBy(backend) ==
    mpc = "score" /\ mres = "returned" /\ score.backend = backend

start_tick_of(k) == to_ticks(melody[k].start_time, bpm)
duration_ticks_of(k) == to_ticks(melody[k].duration, bpm)

\* current_tick after note k (0 before the first note).
current_tick_after(k) ==
    IF k = 0 THEN 0 ELSE start_tick_of(k) + duration_ticks_of(k)

\* The sum of the delta times of the first n messages of a track.
RECURSIVE TicksUpTo(_, _)
TicksUpTo(track, n) == IF n = 0 THEN 0 ELSE TicksUpTo(track, n - 1) + track[n].time

NonOverlappingTicks ==
    \A k \in 1..Len(melody) : start_tick_of(k) >= current_tick_after(k - 1)

\* C24: in create_simple_midi the note-on of each note is preceded by a wait
\* of max(0, start_tick - current_tick), its note-off follows duration_ticks
\* later and current_tick becomes start_tick + duration_ticks; so for a
\* melody without overlap the absolute tick of every note-on is the note's
\* start_tick and current_tick is the sum of the delta times emitted so far.
C24_DeltaTimesFollowCurrentTick ==
    WrittenBy("simple") =>
        LET track == score.events
        IN /\ Len(track) = 2 * Len(melody) + 1
           /\ \A k \in 1..Len(melody) :
                 LET wait == start_tick_of(k) - current_tick_after(k - 1)
                 IN /\ track[2 * k].type = "note_on"
                    /\ track[2 * k].time = (IF wait > 0 THEN wait ELSE 0)
                    /\ track[2 * k + 1].type = "note_off"
                    /\ track[2 * k + 1].time = duration_ticks_of(k)
           /\ NonOverlappingTicks =>
                 \A k \in 1..Len(melody) :
                    /\ TicksUpTo(track, 2 * k) = start_tick_of(k)
                    /\ TicksUpTo(track, 2 * k + 1) = current_tick_after(k)

\* Two notes with a silence between them.
C24_Witness ==
    /\ WrittenBy("simple")
    /\ bpm = 120
    /\ Len(melody) = 2
    /\ melody[1].start_time = <<0, 1>> /\ melody[1].duration = <<1, 4>>
    /\ melody[2].start_time = <<1, 2>>
    /\ score.events[4].time = 240
    /\ TicksUpTo(score.events, 4) = 480

\* The integer nearest to a fraction x >= 0.
RoundNearest(x) == (2 * x[1] + x[2]) \div (2 * x[2])
ExactTicks(seconds) ==
    RMul(RMul(RMul(seconds, RInt(bpm)), Rat(1, 60)), RInt(ticks_per_beat))

\* C25: the in-house writer converts start_time and duration to ticks by
\* rounding to the nearest integer, round(seconds * bpm / 60 * ticks_per_beat).
C25_TicksAreRoundedToNearest ==
    (WrittenBy("simple") /\ Len(melody) >= 1) =>
        /\ score.events[2].time = RoundNearest(ExactTicks(melody[1].start_time))
        /\ \A k \in 1..Len(melody) :
              score.events[2 * k + 1].time = RoundNearest(ExactTicks(melody[k].duration))

\* The beats create_midi_with_midiutil assigns to note k of the melody.
midiutil_beats(k) == midiutil_notes(melody, bpm)[k]

\* The track create_simple_midi saves for the melody; it is also what a call
\* through create_midi_with_music21 saves, whose except clause calls it.
in_house_track == create_simple_midi_track(melody, bpm)

\* C30: for bpm > 0 the backends give each note the same length and offset
\* in quarter-note beats, whichever backend writes the score: the beats the
\* MIDI-writer backend assigns (seconds * bpm / 60) equal the beats implied
\* by the ticks of the in-house writer (ticks / ticks_per_beat), which is
\* also the writer behind the notation-library backend.
C30_BackendsAssignTheSameBeats ==
    (bpm > 0 /\ mpc = "score" /\ mres = "returned" /\ NonOverlappingTicks) =>
        \A k \in 1..Len(melody) :
           /\ midiutil_beats(k).duration
                 = Rat(in_house_track[2 * k + 1].time, ticks_per_beat)
           /\ midiutil_beats(k).time
                 = Rat(TicksUpTo(in_house_track, 2 * k), ticks_per_beat)

-----------------------------------------------------------------------------
(* The song generator.                                                     *)

AiPathFailedOrUnused == ~use_ai \/ ai.raised

\* C21: generate_song_lyrics always returns a Song and never raises because
\* of the AI path: without use_ai, or with use_ai when the AI generation
\* raises, the result is the rule-based song, which has a title, a non-empty
\* lyrics list, bpm > 0 and a key.
C21_RuleBasedSongIsAlwaysReturned ==
    /\ gres # "raised"
    /\ gpc \notin {"idle", "start", "fallback"} => gpc = "done" /\ gres = "returned"
    /\ (gpc = "done" /\ AiPathFailedOrUnused) =>
          /\ calls[Len(calls)] = "rule"
          /\ song.title = capitalize(theme) \o <<" ", "S", "o", "n", "g">>
          /\ Len(song.lyrics) = 20
          /\ \E i \in 1..Len(song.lyrics) : song.lyrics[i] # <<>>
          /\ song.bpm \in 80..120
          /\ song.key \in {<<"C">>, <<"D">>, <<"E">>, <<"F">>, <<"G">>, <<"A">>, <<"B">>}

C21_Witness ==
    /\ gpc = "done"
    /\ use_ai
    /\ ai.raised
    /\ calls = <<"ai", "rule">>
    /\ song.bpm = 120
    /\ Len(song.lyrics) = 20

====
